---- MODULE Spec2Model ----
(***************************************************************************)
(* The vibe-trader-agent conversation graph as a state machine.            *)
(*                                                                         *)
(* graph.py registers the stages, their tool-execution nodes and their     *)
(* human-input nodes and wires them with edges; routers.py holds the       *)
(* conditional edges; nodes.py holds the bodies of the stages.  One step   *)
(* of the model is one node of the graph run by the engine, together with  *)
(* the routing decision that follows it.                                   *)
(*                                                                         *)
(* The language model, the user, the market-data provider and the remote   *)
(* optimizer are the environment: their answers are drawn with \E from     *)
(* small sets.                                                             *)
(***************************************************************************)
EXTENDS Integers, Sequences, FiniteSets, TLC

(***************************************************************************)
(* Bounds of the model.                                                    *)
(***************************************************************************)
\* The engine's step budget for one external invocation (recursion_limit).
RecursionLimit == 7
\* Upper bound on the length of the message log explored.
MaxMsgs == 7
\* Number of times the external caller resumes a suspended run.
MaxResumes == 1
\* Longest ticker list the model passes to extract_tickers_data.
MaxTickers == 2
\* Longest message log and number of message ids the reducer is checked on.
MaxLog == 3

\* Entries of a list handed to an extraction tool.
MaxList == 3
\* Views in a list handed to extract_bl_views.
MaxViews == 3
\* Assets of a candidate weight vector, and its largest coordinate (the
\* optimizer's per-asset upper bound) in quarters.
NAssets == 3
MaxCoordinate == 5
\* Largest move per observation of a slow price series, in hundredths of a cent.
MaxStep == 2
\* Tokens of a text handed to extract_json.
MaxText == 6

(***************************************************************************)
(* Values.  Every scalar or collection field is abstracted to a code, 0    *)
(* being the field's default of state.py ("" / 0 / 0.0 / empty list).      *)
(***************************************************************************)
Default == 0

ProfileOrder ==
  << "name", "age", "start_portfolio", "planning_horizon",
     "maximum_drawdown_percentage", "worst_day_decline_percentage",
     "cash_reserve", "max_single_asset_allocation_percentage",
     "target_amount" >>

ProfileFields == { ProfileOrder[i] : i \in 1..Len(ProfileOrder) }

MandateFields == { "existing_holdings", "excluded_assets", "investment_preferences" }

\* Ticker symbols the model may name, and those the provider knows.
Symbols == { "AAA", "BBB", "ZZZ" }
ValidSymbols == { "AAA", "BBB" }

\* Replies the user may give when the run is resumed.
Replies == { "r1", "r2" }

None == "none"

(***************************************************************************)
(* The graph of graph.py.                                                  *)
(***************************************************************************)
END == "__end__"

Nodes ==
  { "profiler", "profiler_human", "profiler_tools",
    "mandate_strategist", "strategist_human", "strategist_tools",
    "asset_researcher", "researcher_human", "researcher_tools",
    "portfolio_analyst", "analyst_tools",
    "portfolio_optimizer", "reporter" }

HumanNodes == { "profiler_human", "strategist_human", "researcher_human" }

ToolNodes == { "profiler_tools", "strategist_tools", "researcher_tools", "analyst_tools" }

\* A variant whose edge out of analyst_tools leads on to the optimizer.
EdgeTargetToOptimizer(n) ==
  CASE n = "profiler_human" -> "profiler"
    [] n = "profiler_tools" -> "profiler"
    [] n = "strategist_human" -> "mandate_strategist"
    [] n = "strategist_tools" -> "mandate_strategist"
    [] n = "researcher_human" -> "asset_researcher"
    [] n = "researcher_tools" -> "asset_researcher"
    [] n = "analyst_tools" -> "portfolio_optimizer"
    [] n = "portfolio_optimizer" -> "reporter"
    [] n = "reporter" -> END

\* A variant whose edge out of strategist_human leads back to the profiler.
EdgeTargetToProfiler(n) ==
  CASE n = "profiler_human" -> "profiler"
    [] n = "profiler_tools" -> "profiler"
    [] n = "strategist_human" -> "profiler"
    [] n = "strategist_tools" -> "mandate_strategist"
    [] n = "researcher_human" -> "asset_researcher"
    [] n = "researcher_tools" -> "asset_researcher"
    [] n = "analyst_tools" -> "portfolio_analyst"
    [] n = "portfolio_optimizer" -> "reporter"
    [] n = "reporter" -> END

\* A variant whose edge out of researcher_tools leads back to the mandate stage.
EdgeTargetToStrategist(n) ==
  CASE n = "profiler_human" -> "profiler"
    [] n = "profiler_tools" -> "profiler"
    [] n = "strategist_human" -> "mandate_strategist"
    [] n = "strategist_tools" -> "mandate_strategist"
    [] n = "researcher_human" -> "asset_researcher"
    [] n = "researcher_tools" -> "mandate_strategist"
    [] n = "analyst_tools" -> "portfolio_analyst"
    [] n = "portfolio_optimizer" -> "reporter"
    [] n = "reporter" -> END

\* builder.add_edge(a, b): the unconditional edges.
EdgeTarget(n) ==
  CASE n = "profiler_human" -> "profiler"
    [] n = "profiler_tools" -> "profiler"
    [] n = "strategist_human" -> "mandate_strategist"
    [] n = "strategist_tools" -> "mandate_strategist"
    [] n = "researcher_human" -> "asset_researcher"
    [] n = "researcher_tools" -> "asset_researcher"
    [] n = "analyst_tools" -> "portfolio_analyst"
    [] n = "portfolio_optimizer" -> "reporter"
    [] n = "reporter" -> END

(***************************************************************************)
(* graph.py imports the stage functions under the names profiler,          *)
(* mandate_strategist, asset_researcher, portfolio_analyst and             *)
(* portfolio_optimizer; nodes.py defines them as profile_builder,          *)
(* financial_advisor, asset_finder, views_analyst and optimizer, and       *)
(* writes node names of its own scheme into `next`.  NodeAlias relates the *)
(* two naming schemes by role; a name of neither scheme is no node.        *)
(***************************************************************************)
NodeAlias(name) ==
  CASE name = "profile_builder" -> "profiler"
    [] name = "human_input_builder" -> "profiler_human"
    [] name = "tools_builder" -> "profiler_tools"
    [] name = "financial_advisor" -> "mandate_strategist"
    [] name = "human_input_advisor" -> "strategist_human"
    [] name = "tools_advisor" -> "strategist_tools"
    [] name = "asset_finder" -> "asset_researcher"
    [] name = "human_input_finder" -> "researcher_human"
    [] name = "tools_finder" -> "researcher_tools"
    [] name = "views_analyst" -> "portfolio_analyst"
    [] name = "optimizer" -> "portfolio_optimizer"
    [] OTHER -> name

\* The tools bound to each stage (tools.py).
profile_builder_tools == { "search", "extract_profile_data" }
financial_advisor_tools == { "search", "extract_mandate_data" }
asset_finder_tools == { "search", "extract_tickers_data" }
views_analyst_tools == { "search_market_data", "calculate_financial_metrics", "extract_bl_views" }

(***************************************************************************)
(* State.                                                                  *)
(***************************************************************************)
VARIABLES
  status,                \* "running" | "suspended" | "ended" | "out_of_steps" | "crashed"
  node,                  \* the node the engine runs next (or is suspended in)
  steps,                 \* nodes run in the current external invocation
  resumes,               \* resumptions by the external caller so far
  resume_value,          \* the reply handed to interrupt() on resumption
  interrupt_payload,     \* what the suspended run delivered to the caller
  messages,              \* State.messages
  next,                  \* State.next
  user_input,            \* State.user_input
  profile,               \* the nine profile fields of State
  profile_complete,      \* State.profile_complete
  mandate,               \* existing_holdings, excluded_assets, investment_preferences
  mandate_complete,      \* State.mandate_complete
  tickers,               \* State.tickers
  bl_views,              \* State.bl_views
  optimizer_raw_results, \* State.optimizer_raw_results
  optimizer_outcome,     \* State.optimizer_outcome
  pdf_dashboard_url,     \* State.pdf_dashboard_url
  response,              \* the model response of the stage turn that ran last
  routed,                \* what the router returned after the node that ran last
  executed,              \* how many times the optimizer and the reporter have run
  mlog,                  \* a message log under the reducer of State.messages
  tool_args,             \* the arguments of a call of an extraction tool
  tool_output            \* what the tool returned for them

profileVars == << profile, profile_complete >>
mandateVars == << mandate, mandate_complete >>
optimizerVars == << optimizer_raw_results, optimizer_outcome, pdf_dashboard_url >>
\* The conversation graph's variables, and those of the functions checked
\* on their own.
graphVars ==
  << status, node, steps, resumes, resume_value, interrupt_payload, messages,
     next, user_input, profile, profile_complete, mandate, mandate_complete,
     tickers, bl_views, optimizer_raw_results, optimizer_outcome,
     pdf_dashboard_url, response, routed, executed >>
pureVars == << mlog, tool_args, tool_output >>
vars == << graphVars, pureVars >>

(***************************************************************************)
(* Messages.                                                               *)
(***************************************************************************)
Last(s) == s[Len(s)]

\* A tool call of a model response.
ToolCall(name, args) == [ name |-> name, args |-> args ]

Msg(id, type, content, calls, name, call_id) ==
  [ id |-> id, type |-> type, content |-> content, tool_calls |-> calls,
    name |-> name, tool_call_id |-> call_id ]

HumanMessage(id, content) == Msg(id, "human", content, << >>, "", 0)
AIMessage(id, content, calls) == Msg(id, "ai", content, calls, "", 0)
ToolMessage(id, content, name, call_id) == Msg(id, "tool", content, << >>, name, call_id)

\* Message ids are unique: the model's response ids and the ids add_messages
\* assigns to a message without one are fresh.
FreshId(msgs) == Len(msgs) + 1

IdIndex(msgs, id) ==
  IF \E i \in 1..Len(msgs) : msgs[i].id = id
    THEN CHOOSE i \in 1..Len(msgs) : msgs[i].id = id
    ELSE 0

\* A variant that appends whatever the id.
add_message_append(msgs, m) == Append(msgs, m)

\* The reducer of State.messages: merge one message by id.
add_message(msgs, m) ==
  IF IdIndex(msgs, m.id) = 0
    THEN Append(msgs, m)
    ELSE [ msgs EXCEPT ![IdIndex(msgs, m.id)] = m ]

RECURSIVE add_messages(_, _)
add_messages(left, right) ==
  IF right = << >>
    THEN left
    ELSE add_messages(add_message(left, Head(right)), Tail(right))

(***************************************************************************)
(* Message contents.  A content is a record of one shape: the kind of      *)
(* text or payload, a number that tells texts apart, the fields of a       *)
(* structured payload and its completion flag.                             *)
(***************************************************************************)
Content(kind, ref, fields, complete) ==
  [ kind |-> kind, ref |-> ref, fields |-> fields, complete |-> complete ]

Text(kind, ref) == Content(kind, ref, << >>, FALSE)

\* "Sorry, I could not find an answer to your question in the specified number of steps."
Apology == Text("apology", 0)
\* "Black-Litterman inputs generated and extracted successfully."
ViewsConfirmation == Text("views_confirmation", 0)
\* f"Optimization failed: {str(e)}"
OptimizationFailed == Text("optimization_failed", 0)
\* The same with the text of an error of the request to the optimizer service.
RequestFailed == Text("optimization_failed", 1)

(***************************************************************************)
(* extraction_tools.py                                                     *)
(***************************************************************************)
\* extract_profile_data: an omitted argument takes its default, the result
\* echoes the nine fields and sets profile_complete.
extract_profile_data(args) ==
  Content("extract_profile_data", 0,
          [ f \in ProfileFields |-> IF f \in DOMAIN args THEN args[f] ELSE Default ],
          TRUE)

\* extract_bl_views on views that pass (fail) _validate_bl_views.
extract_bl_views(args) ==
  IF args.views = "valid"
    THEN Content("bl_views", 1, << >>, TRUE)
    ELSE Content("error", 0, << >>, FALSE)

\* finance_tools.validate_ticker_exists: the provider knows the symbol.
validate_ticker_exists(t) == t \in ValidSymbols

RECURSIVE SelectValid(_)
SelectValid(ts) ==
  IF ts = << >>
    THEN << >>
    ELSE IF validate_ticker_exists(Head(ts))
      THEN << Head(ts) >> \o SelectValid(Tail(ts))
      ELSE SelectValid(Tail(ts))

(***************************************************************************)
(* The environment: what the model answers in each stage.                  *)
(***************************************************************************)
\* The arguments of a search or of an indicator calculation.
Query == [ query |-> "q" ]

\* The arguments of an extract_profile_data call: all nine fields with a
\* value, all nine with age passed as 0, or target_amount left out.
ProfileArgChoices ==
  { [ f \in ProfileFields |-> 1 ],
    [ f \in ProfileFields |-> IF f = "age" THEN Default ELSE 1 ],
    [ f \in ProfileFields \ { "target_amount" } |-> 1 ] }

MandateArgChoices ==
  { [ f \in MandateFields |-> 1 ],
    [ f \in { "existing_holdings" } |-> 1 ],
    [ f \in MandateFields |-> Default ] }

TickerLists == UNION { [ 1..n -> Symbols ] : n \in 0..MaxTickers }

ProfileBuilderResponses ==
  { << >>, << ToolCall("search", Query) >> }
    \cup { << ToolCall("extract_profile_data", a) >> : a \in ProfileArgChoices }

FinancialAdvisorResponses ==
  { << >>, << ToolCall("search", Query) >> }
    \cup { << ToolCall("extract_mandate_data", a) >> : a \in MandateArgChoices }

AssetFinderResponses ==
  { << >>, << ToolCall("search", Query) >> }
    \cup { << ToolCall("extract_tickers_data", [ tickers |-> ts ]) >> : ts \in TickerLists }

ViewsAnalystResponses ==
  { << >>,
    << ToolCall("search_market_data", Query) >>,
    << ToolCall("calculate_financial_metrics", Query) >>,
    << ToolCall("extract_bl_views", [ views |-> "valid" ]) >>,
    << ToolCall("extract_bl_views", [ views |-> "invalid" ]) >> }

(***************************************************************************)
(* routers.py                                                              *)
(***************************************************************************)
route_profiler_output(nxt, complete) ==
  IF nxt # "" THEN nxt
  ELSE IF complete THEN "mandate_strategist"
  ELSE "profiler_human"

route_mandate_strategist_output(nxt, complete) ==
  IF nxt # "" THEN nxt
  ELSE IF complete THEN "asset_researcher"
  ELSE "strategist_human"

route_asset_researcher_output(nxt, tks) ==
  IF nxt # "" THEN nxt
  ELSE IF tks # << >> THEN "portfolio_analyst"
  ELSE "researcher_human"

\* A variant that ends the conversational part at the reporter, as the
\* router did before the optimizer stage existed.
route_portfolio_analyst_output_skip(msgs) ==
  IF Last(msgs).type # "ai" THEN "raise"
  ELSE IF Last(msgs).tool_calls # << >> THEN "analyst_tools"
  ELSE "reporter"

\* "raise" stands for the ValueError of a last message that is no AIMessage.
route_portfolio_analyst_output(msgs) ==
  IF Last(msgs).type # "ai" THEN "raise"
  ELSE IF Last(msgs).tool_calls # << >> THEN "analyst_tools"
  ELSE "portfolio_optimizer"

(***************************************************************************)
(* The engine.                                                             *)
(***************************************************************************)
\* State.is_last_step: the step count has reached recursion_limit - 1.
is_last_step == steps = RecursionLimit - 1

Runs(n) == status = "running" /\ node = n /\ steps < RecursionLimit

\* The node has run; control goes to the node named r.
Goto(r) ==
  /\ routed' = r
  /\ node' = NodeAlias(r)
  /\ status' = IF NodeAlias(r) = END THEN "ended"
               ELSE IF NodeAlias(r) \in Nodes THEN "running"
               ELSE "crashed"
  /\ steps' = steps + 1
  /\ executed' = IF node \in DOMAIN executed
                   THEN [ executed EXCEPT ![node] = @ + 1 ]
                   ELSE executed
  /\ UNCHANGED << resumes, resume_value, interrupt_payload, pureVars >>

\* The node raised: the run ends with the error and its update is lost.
Crash ==
  /\ status' = "crashed"
  /\ UNCHANGED << node, steps, resumes, resume_value, interrupt_payload, messages,
                  next, user_input, profile, profile_complete, mandate,
                  mandate_complete, tickers, bl_views, optimizer_raw_results,
                  optimizer_outcome, pdf_dashboard_url, routed, executed, pureVars >>

\* A node is due and the step budget is used up: GraphRecursionError.
OutOfSteps ==
  /\ status = "running"
  /\ steps >= RecursionLimit
  /\ status' = "out_of_steps"
  /\ UNCHANGED << node, steps, resumes, resume_value, interrupt_payload, messages,
                  next, user_input, profile, profile_complete, mandate,
                  mandate_complete, tickers, bl_views, optimizer_raw_results,
                  optimizer_outcome, pdf_dashboard_url, response, routed, executed,
                  pureVars >>

Room == Len(messages) < MaxMsgs

GraphInit ==
  /\ status = "running"
  /\ node = "profiler"
  /\ steps = 0
  /\ resumes = 0
  /\ resume_value = None
  /\ interrupt_payload = Text(None, 0)
  /\ messages = << HumanMessage(1, Text("text", 1)) >>
  /\ next = ""
  /\ user_input = ""
  /\ profile = [ f \in ProfileFields |-> Default ]
  /\ profile_complete = FALSE
  /\ mandate = [ f \in MandateFields |-> Default ]
  /\ mandate_complete = FALSE
  /\ tickers = << >>
  /\ bl_views = 0
  /\ optimizer_raw_results = None
  /\ optimizer_outcome = ""
  /\ pdf_dashboard_url = ""
  /\ response = [ stage |-> None, tool_calls |-> << >> ]
  /\ routed = "profiler"
  /\ executed = [ n \in { "portfolio_optimizer", "reporter" } |-> 0 ]

PureInit ==
  /\ mlog = << >>
  /\ tool_args = << >>
  /\ tool_output = Text(None, 0)

Init == GraphInit /\ PureInit

(***************************************************************************)
(* nodes.py: the stages.                                                   *)
(***************************************************************************)
\* result.update(args): every key of the tool call's arguments is written,
\* every other field keeps its value.
UpdateFields(old, args) ==
  [ f \in DOMAIN old |-> IF f \in DOMAIN args THEN args[f] ELSE old[f] ]

\* The stage returns {"messages": [m]}.
AppendMessage(m) == messages' = add_messages(messages, << m >>)

Turn(stage, resp) == response' = [ stage |-> stage, tool_calls |-> resp ]

\* model.ainvoke([system, *state.messages]): the turns of the conversation a
\* stage hands to the model; the system prompt carries the time only.
ainvoke_messages == messages

profile_builder ==
  /\ Runs("profiler")
  /\ \E resp \in ProfileBuilderResponses :
       /\ Turn("profile_builder", resp)
       /\ IF resp # << >> /\ resp[1].name = "extract_profile_data"
            THEN /\ profile' = UpdateFields(profile, resp[1].args)
                 /\ next' = "financial_advisor"
                 /\ UNCHANGED messages
            ELSE /\ Room
                 /\ AppendMessage(AIMessage(FreshId(messages),
                                            Text("text", FreshId(messages)), resp))
                 /\ next' = IF resp # << >> THEN "tools_builder" ELSE "human_input_builder"
                 /\ UNCHANGED profile
       /\ UNCHANGED << profile_complete, mandateVars, tickers, bl_views,
                       optimizerVars, user_input >>
       /\ Goto(route_profiler_output(next', profile_complete'))

financial_advisor ==
  /\ Runs("mandate_strategist")
  /\ \E resp \in FinancialAdvisorResponses :
       /\ Turn("financial_advisor", resp)
       /\ IF is_last_step /\ resp # << >>
            THEN /\ Room
                 /\ AppendMessage(AIMessage(FreshId(messages), Apology, << >>))
                 /\ UNCHANGED << next, mandate >>
            ELSE IF resp # << >> /\ resp[1].name = "extract_mandate_data"
            THEN /\ mandate' = UpdateFields(mandate, resp[1].args)
                 /\ next' = "asset_finder"
                 /\ UNCHANGED messages
            ELSE /\ Room
                 /\ AppendMessage(AIMessage(FreshId(messages),
                                            Text("text", FreshId(messages)), resp))
                 /\ next' = IF resp # << >> THEN "tools_advisor" ELSE "human_input_advisor"
                 /\ UNCHANGED mandate
       /\ UNCHANGED << profileVars, mandate_complete, tickers, bl_views,
                       optimizerVars, user_input >>
       /\ Goto(route_mandate_strategist_output(next', mandate_complete'))

asset_finder ==
  /\ Runs("asset_researcher")
  /\ \E resp \in AssetFinderResponses :
       /\ Turn("asset_finder", resp)
       /\ IF resp # << >> /\ resp[1].name = "extract_tickers_data"
            THEN /\ tickers' = SelectValid(resp[1].args.tickers)
                 /\ next' = "views_analyst"
                 /\ UNCHANGED messages
            ELSE /\ Room
                 /\ AppendMessage(AIMessage(FreshId(messages),
                                            Text("text", FreshId(messages)), resp))
                 /\ next' = IF resp # << >> THEN "tools_finder" ELSE "human_input_finder"
                 /\ UNCHANGED tickers
       /\ UNCHANGED << profileVars, mandateVars, bl_views, optimizerVars, user_input >>
       /\ Goto(route_asset_researcher_output(next', tickers'))

\* The last message is the result of extract_bl_views.
IsViewsResult(m) ==
  m.type = "tool" /\ m.name = "extract_bl_views" /\ m.tool_call_id # 0

views_analyst ==
  /\ Runs("portfolio_analyst")
  /\ IF messages # << >> /\ IsViewsResult(Last(messages))
       THEN \* tool_output["bl_views"]: a KeyError on an error payload
            IF Last(messages).content.kind # "bl_views"
              THEN Crash /\ UNCHANGED response
              ELSE /\ Room
                   /\ AppendMessage(AIMessage(FreshId(messages), ViewsConfirmation, << >>))
                   /\ bl_views' = Last(messages).content.ref
                   /\ next' = "optimizer"
                   /\ UNCHANGED << response, profileVars, mandateVars, tickers,
                                   optimizerVars, user_input >>
                   /\ Goto(route_portfolio_analyst_output(messages'))
       ELSE \E resp \in ViewsAnalystResponses :
              /\ Turn("views_analyst", resp)
              /\ Room
              /\ IF is_last_step /\ resp # << >>
                   THEN AppendMessage(AIMessage(FreshId(messages), Apology, << >>))
                   ELSE AppendMessage(AIMessage(FreshId(messages),
                                                Text("text", FreshId(messages)), resp))
              /\ UNCHANGED << next, bl_views, profileVars, mandateVars, tickers,
                              optimizerVars, user_input >>
              /\ Goto(route_portfolio_analyst_output(messages'))

(***************************************************************************)
(* The tool-execution nodes: ToolNode(tools) of graph.py runs every tool   *)
(* call of the last message and appends one tool-result turn per call.     *)
(***************************************************************************)
ToolResult(call) ==
  CASE call.name = "extract_profile_data" -> extract_profile_data(call.args)
    [] call.name = "extract_bl_views" -> extract_bl_views(call.args)
    [] OTHER -> Text("result", 0)

RECURSIVE ToolMessages(_, _, _)
ToolMessages(calls, id, caller) ==
  IF calls = << >>
    THEN << >>
    ELSE << ToolMessage(id, ToolResult(Head(calls)), Head(calls).name, caller) >>
           \o ToolMessages(Tail(calls), id + 1, caller)

ToolNode ==
  \E n \in ToolNodes :
    /\ Runs(n)
    /\ IF Last(messages).type # "ai" \/ Last(messages).tool_calls = << >>
         THEN Crash /\ UNCHANGED response
         ELSE /\ Len(messages) + Len(Last(messages).tool_calls) <= MaxMsgs
              /\ messages' = add_messages(messages,
                                ToolMessages(Last(messages).tool_calls,
                                             FreshId(messages), Last(messages).id))
              /\ UNCHANGED << next, user_input, profileVars, mandateVars, tickers,
                              bl_views, optimizerVars, response >>
              /\ Goto(EdgeTarget(n))

(***************************************************************************)
(* nodes.py: human_input_node.  interrupt(T) suspends the run with payload *)
(* T; when the caller resumes the run the node runs again and interrupt    *)
(* returns the caller's reply.                                             *)
(***************************************************************************)
\* A variant that reads the first message of the log instead of the last.
InterruptPayloadFirst(msgs) == msgs[1].content

InterruptPayload(msgs) == Last(msgs).content

\* What the node returns once interrupt() has returned reply r.
HumanUpdate(r, old) == r

human_input_suspend ==
  \E n \in HumanNodes :
    /\ Runs(n)
    /\ resume_value = None
    /\ status' = "suspended"
    /\ interrupt_payload' = InterruptPayload(messages)
    /\ steps' = steps + 1
    /\ UNCHANGED << node, resumes, resume_value, messages, next, user_input,
                    profileVars, mandateVars, tickers, bl_views, optimizerVars,
                    response, routed, executed, pureVars >>

\* The external caller resumes the suspended run with the user's reply: a new
\* invocation, with a step budget of its own.
Resume ==
  /\ status = "suspended"
  /\ resumes < MaxResumes
  /\ \E r \in Replies : resume_value' = r
  /\ status' = "running"
  /\ steps' = 0
  /\ resumes' = resumes + 1
  /\ UNCHANGED << node, interrupt_payload, messages, next, user_input,
                  profileVars, mandateVars, tickers, bl_views, optimizerVars,
                  response, routed, executed, pureVars >>

human_input_node ==
  \E n \in HumanNodes :
    /\ Runs(n)
    /\ resume_value # None
    /\ user_input' = HumanUpdate(resume_value, user_input)
    /\ routed' = EdgeTarget(n)
    /\ node' = EdgeTarget(n)
    /\ steps' = steps + 1
    /\ resume_value' = None
    /\ UNCHANGED << status, resumes, executed, interrupt_payload, messages, next,
                    profileVars, mandateVars, tickers, bl_views, optimizerVars,
                    response, pureVars >>

(***************************************************************************)
(* nodes.py: optimizer and reporter.                                       *)
(***************************************************************************)
\* state_parser.parse_state_to_optimizer_params: the projection of the state
\* onto the fields the optimizer takes.
parse_state_to_optimizer_params ==
  [ planning_horizon |-> profile["planning_horizon"],
    start_portfolio |-> profile["start_portfolio"],
    target_amount |-> profile["target_amount"],
    tickers |-> tickers,
    bl_views |-> bl_views ]

\* params_validation.validate_optimizer_params: a required field is there
\* and the horizon and the amounts are positive.  optimizer does not call it.
validate_optimizer_params(params) ==
  /\ params.planning_horizon # Default
  /\ params.start_portfolio # Default
  /\ params.target_amount # Default
  /\ params.tickers # << >>

\* What can happen inside the try block of optimizer: the request is answered,
\* the credentials or the token fail before it is sent, or it is sent and
\* fails (a timeout, an error status).
OptimizerOutcomes == { "ok", "credentials", "remote" }

optimizer ==
  /\ Runs("portfolio_optimizer")
  /\ Room
  /\ \E outcome \in OptimizerOutcomes :
       IF outcome = "ok"
         THEN /\ AppendMessage(AIMessage(FreshId(messages), Text("optimizer_results", 0), << >>))
              /\ optimizer_raw_results' = "results"
              /\ optimizer_outcome' = "formatted_results"
         ELSE /\ AppendMessage(AIMessage(FreshId(messages),
                                         IF outcome = "credentials"
                                           THEN OptimizationFailed ELSE RequestFailed,
                                         << >>))
              /\ UNCHANGED << optimizer_raw_results, optimizer_outcome >>
  /\ UNCHANGED << next, user_input, profileVars, mandateVars, tickers, bl_views,
                  pdf_dashboard_url, response >>
  /\ Goto(EdgeTarget("portfolio_optimizer"))

\* url = "Invalid URL: Please double check the PDF Dashboard Publication."
InvalidUrl == "invalid_url"

\* The url the try block of reporter leaves: that of the uploaded dashboard,
\* or the placeholder when generating or uploading raised.  Without raw
\* results the subscript optimizer_raw_results["inputs"] raises.
DashboardUrls ==
  IF optimizer_raw_results = None THEN { InvalidUrl } ELSE { "signed_url", InvalidUrl }

reporter ==
  /\ Runs("reporter")
  /\ IF pdf_dashboard_url # ""
       THEN \* url is unbound: the prompt's f-string raises NameError
            Crash /\ UNCHANGED response
       ELSE /\ Room
            /\ \E url \in DashboardUrls :
                 response' = [ stage |-> "reporter", tool_calls |-> << >>, url |-> url ]
            /\ AppendMessage(AIMessage(FreshId(messages),
                                       Text("report", FreshId(messages)), << >>))
            /\ UNCHANGED << next, user_input, profileVars, mandateVars, tickers,
                            bl_views, optimizerVars >>
            /\ Goto(EdgeTarget("reporter"))

Next ==
  \/ profile_builder
  \/ financial_advisor
  \/ asset_finder
  \/ views_analyst
  \/ ToolNode
  \/ human_input_suspend
  \/ Resume
  \/ human_input_node
  \/ optimizer
  \/ reporter
  \/ OutOfSteps

Spec == Init /\ [][Next]_vars

\* The engine runs the node that is due (ainvoke loops until the run stops),
\* the user answers a pending question, and the model of a stage that keeps
\* getting turns eventually calls the stage's extraction tool with data the
\* tool accepts.
Fairness ==
  /\ WF_vars(Next)
  /\ WF_vars(Resume)
  /\ SF_vars(profile_builder /\ next' = "financial_advisor")
  /\ SF_vars(financial_advisor /\ next' = "asset_finder")
  /\ SF_vars(asset_finder /\ next' = "views_analyst" /\ Len(tickers') >= 2)
  /\ SF_vars(views_analyst /\ response'.tool_calls
                                = << ToolCall("extract_bl_views", [ views |-> "valid" ]) >>)

SpecLive == Spec /\ Fairness

(***************************************************************************)
(* reporter on its own: the stage is entered at any step of the budget     *)
(* after an optimizer stage that succeeded or failed, with or without a    *)
(* dashboard url in the state.                                             *)
(***************************************************************************)
ReporterInit ==
  /\ status = "running"
  /\ node = "reporter"
  /\ routed = "reporter"
  /\ steps \in 0..(RecursionLimit - 1)
  /\ resumes = 0
  /\ resume_value = None
  /\ interrupt_payload = Text(None, 0)
  /\ next = "optimizer"
  /\ user_input \in { "" } \cup Replies
  /\ profile = [ f \in ProfileFields |-> 1 ]
  /\ profile_complete = FALSE
  /\ mandate = [ f \in MandateFields |-> 1 ]
  /\ mandate_complete = FALSE
  /\ tickers = << "AAA", "BBB" >>
  /\ bl_views = 1
  /\ \E outcome \in OptimizerOutcomes :
       /\ messages = << HumanMessage(1, Text("text", 1)),
                        AIMessage(2, IF outcome = "ok" THEN Text("optimizer_results", 0)
                                     ELSE IF outcome = "credentials" THEN OptimizationFailed
                                     ELSE RequestFailed, << >>) >>
       /\ optimizer_raw_results = IF outcome = "ok" THEN "results" ELSE None
       /\ optimizer_outcome = IF outcome = "ok" THEN "formatted_results" ELSE ""
  /\ pdf_dashboard_url \in { "", "signed_url" }
  /\ response = [ stage |-> "views_analyst", tool_calls |-> << >> ]
  /\ executed = [ n \in { "portfolio_optimizer", "reporter" } |->
                    IF n = "reporter" THEN 0 ELSE 1 ]
  /\ PureInit

SpecReporter == ReporterInit /\ [][reporter]_vars

(***************************************************************************)
(* The reducer of State.messages on its own: turns with ids of a small set *)
(* are merged one after the other into a log that starts empty.            *)
(***************************************************************************)
MergeIds == 1..MaxLog

MergeTurns ==
  { Msg(id, type, Text("text", c), << >>, IF type = "tool" THEN "search" ELSE "",
        IF type = "tool" THEN 1 ELSE 0) :
      id \in MergeIds, type \in { "ai", "tool" }, c \in 1..2 }

MergeTurn ==
  \E m \in MergeTurns :
    /\ IdIndex(mlog, m.id) # 0 \/ Len(mlog) < MaxLog
    /\ mlog' = add_messages(mlog, << m >>)
    /\ UNCHANGED << graphVars, tool_args, tool_output >>

SpecMerge == Init /\ [][MergeTurn]_vars

(***************************************************************************)
(* The extraction tools on their own: the tool is called with arguments    *)
(* drawn from a bounded set and its result is recorded.                    *)
(***************************************************************************)
\* Every way of passing a value, passing the default, or omitting each argument.
ProfileArgSets ==
  { [ f \in { g \in ProfileFields : a[g] # "omitted" } |->
        IF a[f] = "default" THEN Default ELSE 1 ] :
      a \in [ ProfileFields -> { "omitted", "default", "value" } ] }

ToolsInit ==
  /\ GraphInit
  /\ mlog = << >>
  /\ tool_args \in ProfileArgSets
  /\ tool_output = Text(None, 0)

CallExtractProfileData ==
  /\ tool_output = Text(None, 0)
  /\ tool_output' = extract_profile_data(tool_args)
  /\ UNCHANGED << graphVars, mlog, tool_args >>

SpecTools == ToolsInit /\ [][CallExtractProfileData]_vars

(***************************************************************************)
(* extract_tickers_data on its own.  A raw list entry is a string (a        *)
(* sequence of characters) or something that is no string.                 *)
(***************************************************************************)
\* str.upper on one character.
Upper(c) ==
  CASE c = "a" -> "A"
    [] c = "b" -> "B"
    [] c = "z" -> "Z"
    [] OTHER -> c

upper(t) == [ i \in 1..Len(t) |-> Upper(t[i]) ]

\* str.strip: leading and trailing blanks removed.
RECURSIVE lstrip(_)
lstrip(t) == IF t # << >> /\ Head(t) = " " THEN lstrip(Tail(t)) ELSE t

RECURSIVE rstrip(_)
rstrip(t) ==
  IF t # << >> /\ t[Len(t)] = " " THEN rstrip(SubSeq(t, 1, Len(t) - 1)) ELSE t

strip(t) == rstrip(lstrip(t))

\* The symbols the existence check knows, as texts.
ValidTexts == { << "A" >>, << "B" >>, << "A", "B" >> }

validate_ticker_text(t) == t \in ValidTexts

RawTexts ==
  { << >>, << " " >>, << "a" >>, << "A" >>, << " ", "a" >>, << "A", " " >>,
    << "b" >>, << "B" >>, << "a", "b" >>, << "a", "B" >>, << "z" >>, << "Z" >> }

RawEntries ==
  { [ isstr |-> TRUE, text |-> t ] : t \in RawTexts }
    \cup { [ isstr |-> FALSE, text |-> << >> ] }

RawLists == UNION { [ 1..n -> RawEntries ] : n \in 0..MaxList }

\* validate_tickers without the final list(set(...)).
RECURSIVE validated_tickers(_)
validated_tickers(ticker_list) ==
  IF ticker_list = << >> THEN << >>
  ELSE LET ticker == Head(ticker_list)
           cleaned_ticker == upper(strip(ticker.text))
           rest == validated_tickers(Tail(ticker_list))
       IN IF ~ticker.isstr THEN rest
          ELSE IF cleaned_ticker = << >> THEN rest
          ELSE IF validate_ticker_text(cleaned_ticker) THEN << cleaned_ticker >> \o rest
          ELSE rest

Range(q) == { q[i] : i \in 1..Len(q) }

\* A variant that returns the validated list as it is.
DedupeSkipped(q) == { q }

\* list(set(q)): the distinct entries, in an order the build chooses.
Dedupe(q) ==
  { p \in [ 1..Cardinality(Range(q)) -> Range(q) ] : Range(p) = Range(q) }

\* The results extract_tickers_data can return for a list.
extract_tickers_data(ticker_list) ==
  { IF Len(valid_tickers) >= 2
      THEN [ tickers |-> valid_tickers ]
      ELSE [ error |-> Len(valid_tickers) ] :
    valid_tickers \in Dedupe(validated_tickers(ticker_list)) }

TickersInit ==
  /\ GraphInit
  /\ mlog = << >>
  /\ tool_args \in RawLists
  /\ tool_output = [ pending |-> TRUE ]

CallExtractTickersData ==
  /\ tool_output = [ pending |-> TRUE ]
  /\ tool_output' \in extract_tickers_data(tool_args)
  /\ UNCHANGED << graphVars, mlog, tool_args >>

SpecTickers == TickersInit /\ [][CallExtractTickersData]_vars

(***************************************************************************)
(* extract_bl_views on its own.  Returns and uncertainties are counted in   *)
(* ten-thousandths, so that 0.0001 is 1 and 1.0 is ReturnLimit.             *)
(***************************************************************************)
\* 1.0, the largest expected return in either direction.
ReturnLimit == 10000
\* 0.0001 and 0.1, the range of an uncertainty.
MinUncertainty == 1
MaxUncertainty == 1000

\* The tickers views refer to, in lexicographic order.
ViewTickers == << "AAA", "BBB", "CCC" >>

\* The position of a ticker in the lexicographic order.
Lex(t) == CHOOSE i \in 1..Len(ViewTickers) : ViewTickers[i] = t

Described == << "w", "h", "y" >>
Blank == << " " >>

AbsoluteView(t, r, u, d) ==
  [ view_type |-> "absolute", ticker |-> t,
    expected_return |-> r, uncertainty |-> u, description |-> d ]

RelativeView(l, sh, r, u, d) ==
  [ view_type |-> "relative", long_ticker |-> l, short_ticker |-> sh,
    expected_return |-> r, uncertainty |-> u, description |-> d ]

\* Views that pass every rule, some of them on the edge of a range.
SoundViews ==
  { AbsoluteView(t, 1000, 100, Described) : t \in Range(ViewTickers) }
    \cup { RelativeView(pair[1], pair[2], 500, 200, Described) :
             pair \in { q \in Range(ViewTickers) \X Range(ViewTickers) : q[1] # q[2] } }
    \cup { AbsoluteView("AAA", ReturnLimit, MinUncertainty, Described),
           AbsoluteView("BBB", -ReturnLimit, MaxUncertainty, Described) }

\* Views that break one rule or two.
UnsoundViews ==
  { RelativeView("AAA", "AAA", 500, 200, Described),
    AbsoluteView("AAA", 1000, MinUncertainty - 1, Described),
    AbsoluteView("BBB", 1000, MaxUncertainty + 1, Described),
    AbsoluteView("CCC", ReturnLimit + 1, 100, Described),
    RelativeView("BBB", "CCC", -ReturnLimit - 1, 200, Described),
    AbsoluteView("AAA", 1000, 100, Blank),
    RelativeView("BBB", "BBB", 500, MaxUncertainty + 1, Described) }

ViewLists == UNION { [ 1..n -> SoundViews \cup UnsoundViews ] : n \in 0..MaxViews }

\* A variant that numbers the views from zero.
ViewLabelZeroBased(i) == i

\* "View {i+1}": the number by which a message names the view at index i.
ViewLabel(i) == i + 1

\* The first rule a view breaks, in the order _validate_bl_views checks
\* them, or "" when it breaks none.
ViewError(view) ==
  IF "view_type" \notin DOMAIN view THEN "view_type"
  ELSE IF view.view_type \notin { "absolute", "relative" } THEN "view_type"
  ELSE IF { "expected_return", "uncertainty", "description" } \ DOMAIN view # { }
    THEN "missing"
  ELSE IF view.view_type = "absolute" /\ "ticker" \notin DOMAIN view THEN "ticker"
  ELSE IF view.view_type = "relative"
            /\ { "long_ticker", "short_ticker" } \ DOMAIN view # { } THEN "missing"
  ELSE IF view.view_type = "relative" /\ view.long_ticker = view.short_ticker
    THEN "same_ticker"
  ELSE IF ~(-ReturnLimit <= view.expected_return /\ view.expected_return <= ReturnLimit)
    THEN "expected_return"
  ELSE IF ~(MinUncertainty <= view.uncertainty /\ view.uncertainty <= MaxUncertainty)
    THEN "uncertainty"
  ELSE IF strip(view.description) = << >> THEN "description"
  ELSE ""

\* The loop of _validate_bl_views from index i (counted from zero) on.
RECURSIVE validate_from(_, _)
validate_from(views, i) ==
  IF i = Len(views) THEN [ is_valid |-> TRUE, view |-> 0, rule |-> "" ]
  ELSE IF ViewError(views[i + 1]) # ""
    THEN [ is_valid |-> FALSE, view |-> ViewLabel(i), rule |-> ViewError(views[i + 1]) ]
  ELSE validate_from(views, i + 1)

\* _validate_bl_views: (is_valid, error_message), the message given by the
\* view it names and the rule broken.
validate_bl_views(views) ==
  IF views = << >> THEN [ is_valid |-> FALSE, view |-> 0, rule |-> "no_views" ]
  ELSE validate_from(views, 0)

\* The tickers a view refers to.
ViewRefs(view) ==
  IF view.view_type = "absolute" THEN { view.ticker }
  ELSE { view.long_ticker, view.short_ticker }

\* A variant that orders the tickers from last to first.
sorted_descending(S) ==
  CHOOSE q \in [ 1..Cardinality(S) -> S ] :
    \A i, j \in 1..Cardinality(S) : i < j => Lex(q[i]) > Lex(q[j])

\* sorted(list(tickers_set)).
sorted(S) ==
  CHOOSE q \in [ 1..Cardinality(S) -> S ] :
    \A i, j \in 1..Cardinality(S) : i < j => Lex(q[i]) < Lex(q[j])

\* ticker_to_idx, counted from one.
ticker_to_idx(columns, t) == CHOOSE i \in 1..Len(columns) : columns[i] = t

\* The row of p_matrix a view fills in: zeros, then 1 for the ticker of an
\* absolute view or for the long ticker, then -1 for the short ticker.
p_row(columns, view) ==
  LET zeros == [ c \in 1..Len(columns) |-> 0 ]
  IN IF view.view_type = "absolute"
       THEN [ zeros EXCEPT ![ticker_to_idx(columns, view.ticker)] = 1 ]
       ELSE [ [ zeros EXCEPT ![ticker_to_idx(columns, view.long_ticker)] = 1 ]
                EXCEPT ![ticker_to_idx(columns, view.short_ticker)] = -1 ]

\* A ValueError of _process_bl_views: an uncertainty out of range or a
\* relative view with one ticker on both sides.
ProcessRaises(views) ==
  \E i \in 1..Len(views) :
    \/ ~(MinUncertainty <= views[i].uncertainty /\ views[i].uncertainty <= MaxUncertainty)
    \/ views[i].view_type = "relative" /\ views[i].long_ticker = views[i].short_ticker

\* _process_bl_views on views that raise nothing.
process_bl_views(views) ==
  LET columns == sorted(UNION { ViewRefs(views[i]) : i \in 1..Len(views) })
  IN [ p_matrix |-> [ i \in 1..Len(views) |-> p_row(columns, views[i]) ],
       q_vector |-> [ i \in 1..Len(views) |-> views[i].expected_return ],
       sigma_vector |-> [ i \in 1..Len(views) |-> views[i].uncertainty ],
       tickers |-> columns,
       views_complete |-> TRUE ]

\* The error payload; view 0 stands for a message that names no view.
ViewsError(view, rule) ==
  [ error |-> [ view |-> view, rule |-> rule ], views_complete |-> FALSE ]

\* extract_bl_views on a list of views.
extract_bl_views_payload(views) ==
  IF ~validate_bl_views(views).is_valid
    THEN ViewsError(validate_bl_views(views).view, validate_bl_views(views).rule)
  ELSE IF ProcessRaises(views) THEN ViewsError(0, "processing")
  ELSE [ bl_views |-> process_bl_views(views) ]

ViewsInit ==
  /\ GraphInit
  /\ mlog = << >>
  /\ tool_args \in ViewLists
  /\ tool_output = [ pending |-> TRUE ]

CallExtractBlViews ==
  /\ tool_output = [ pending |-> TRUE ]
  /\ tool_output' = extract_bl_views_payload(tool_args)
  /\ UNCHANGED << graphVars, mlog, tool_args >>

SpecViews == ViewsInit /\ [][CallExtractBlViews]_vars

(***************************************************************************)
(* extract_bl_views next to the ticker universe: the views stage shows     *)
(* state.tickers to the model, the model submits views, and the optimizer  *)
(* hands the accepted payload and the universe to the engine.              *)
(***************************************************************************)
\* Ticker universes of state.tickers, in the order list(set(...)) left them.
Universes == { << "AAA", "BBB" >>, << "BBB", "AAA" >>, << "AAA", "BBB", "CCC" >> }

\* _setup_black_litterman: P must have one column per ticker of the engine.
dimension_mismatch(TICKERS, bl_view_matrix_P) ==
  \E i \in 1..Len(bl_view_matrix_P) : Len(bl_view_matrix_P[i]) # Len(TICKERS)

UniverseInit ==
  /\ GraphInit
  /\ mlog = << >>
  /\ tool_args \in [ tickers : Universes, views : ViewLists ]
  /\ tool_output = [ pending |-> TRUE ]

CallExtractBlViewsForUniverse ==
  /\ tool_output = [ pending |-> TRUE ]
  /\ tool_output' = extract_bl_views_payload(tool_args.views)
  /\ UNCHANGED << graphVars, mlog, tool_args >>

SpecUniverse == UniverseInit /\ [][CallExtractBlViewsForUniverse]_vars

(***************************************************************************)
(* PortfolioOptimizer.objective: the weights it simulates with.  A          *)
(* coordinate is counted in quarters, so that 1.0 is One; a quotient is    *)
(* kept as numerator and denominator, and 0/0 is numpy's nan.              *)
(***************************************************************************)
\* 1.0, the upper end of np.clip(x, 0, 1).
One == 4

\* bounds = [(0, UPPER_BOUNDS) for _ in TICKERS]: the candidate vectors.
Candidates == [ 1..NAssets -> 0..MaxCoordinate ]

\* np.clip(x, 0, 1).
clip(x) == [ i \in DOMAIN x |-> IF x[i] < 0 THEN 0 ELSE IF x[i] > One THEN One ELSE x[i] ]

RECURSIVE SumTo(_, _)
SumTo(x, n) == IF n = 0 THEN 0 ELSE x[n] + SumTo(x, n - 1)

\* x.sum().
sum(x) == SumTo(x, Len(x))

\* w = x / x.sum() after the clip: w[i] is num[i] / den, nan when den = 0.
objective_weights(x) ==
  [ nan |-> sum(clip(x)) = 0, num |-> clip(x), den |-> sum(clip(x)) ]

ObjectiveInit ==
  /\ GraphInit
  /\ mlog = << >>
  /\ tool_args \in Candidates
  /\ tool_output = [ pending |-> TRUE ]

CallObjective ==
  /\ tool_output = [ pending |-> TRUE ]
  /\ tool_output' = objective_weights(tool_args)
  /\ UNCHANGED << graphVars, mlog, tool_args >>

SpecObjective == ObjectiveInit /\ [][CallObjective]_vars

\* upper_bounds=0.5, the default per-asset bound of the search, in quarters.
UPPER_BOUNDS == 2

\* optimize: w_opt = np.clip(result.x, 0, 1); w_opt /= w_opt.sum(), the
\* weights reported for the best vector of the search.
w_opt(result_x) ==
  [ nan |-> sum(clip(result_x)) = 0, num |-> clip(result_x), den |-> sum(clip(result_x)) ]

CallOptimize ==
  /\ tool_output = [ pending |-> TRUE ]
  /\ tool_output' = w_opt(tool_args)
  /\ UNCHANGED << graphVars, mlog, tool_args >>

SpecOptimize == ObjectiveInit /\ [][CallOptimize]_vars

(***************************************************************************)
(* calculate_financial_indicators: the two simple moving averages and the  *)
(* cross indicators.  A price is counted in hundredths of a cent.          *)
(***************************************************************************)
\* rolling(window=20) and rolling(window=50).
ShortWindow == 20
LongWindow == 50
\* round(..., 2): one cent, in hundredths of a cent.
Cent == 100

\* A series that starts at base, moves by step per observation and by a
\* further jump from observation jump_at on.
Series(len, base, step, jump_at) ==
  [ i \in 1..len |-> base + (i - 1) * step + (IF i >= jump_at THEN Cent ELSE 0) ]

PriceSeries ==
  { Series(len, base, step, jump_at) :
      len \in { 30, LongWindow, LongWindow + 1, 60 },
      base \in { 1000, 10030, 999950 },
      step \in ((-MaxStep)..MaxStep) \cup { Cent \div 2, Cent },
      jump_at \in { 1, 10, 40 } }

\* The sum of the last n observations.
RECURSIVE TailSum(_, _)
TailSum(prices, n) ==
  IF n = 0 THEN 0 ELSE prices[Len(prices)] + TailSum(SubSeq(prices, 1, Len(prices) - 1), n - 1)

\* round(n / d, 2) in cents for n, d in hundredths of a cent: the nearest
\* cent, and on a tie either neighbour (the binary value of the quotient
\* decides).
Round2(n, d) ==
  LET q == n \div (d * Cent)
      r == n % (d * Cent)
  IN IF 2 * r < d * Cent THEN { q }
     ELSE IF 2 * r > d * Cent THEN { q + 1 }
     ELSE { q, q + 1 }

\* round(float(prices.rolling(window).mean().iloc[-1]), 2): nan while the
\* window is not filled.
RoundedMean(prices, window) ==
  IF Len(prices) < window THEN { [ nan |-> TRUE, value |-> 0 ] }
  ELSE { [ nan |-> FALSE, value |-> c ] : c \in Round2(TailSum(prices, window), window) }

\* The indicators calculate_financial_indicators can report for a series.
calculate_financial_indicators(prices) ==
  { [ SMA_20 |-> a, SMA_50 |-> b,
      Golden_Cross |-> (~a.nan /\ ~b.nan /\ a.value > b.value),
      Death_Cross |-> (~a.nan /\ ~b.nan /\ a.value < b.value) ] :
    a \in RoundedMean(prices, ShortWindow), b \in RoundedMean(prices, LongWindow) }

IndicatorsInit ==
  /\ GraphInit
  /\ mlog = << >>
  /\ tool_args \in PriceSeries
  /\ tool_output = [ pending |-> TRUE ]

CallCalculateFinancialIndicators ==
  /\ tool_output = [ pending |-> TRUE ]
  /\ tool_output' \in calculate_financial_indicators(tool_args)
  /\ UNCHANGED << graphVars, mlog, tool_args >>

SpecIndicators == IndicatorsInit /\ [][CallCalculateFinancialIndicators]_vars

(***************************************************************************)
(* finance_tools.py: the history of a batch of tickers, the indicator      *)
(* battery and the metrics of a batch.  The provider answers each fetch    *)
(* with prices, with an empty frame or with an error.                      *)
(***************************************************************************)
\* The keys of the bundle in the order calculate_financial_indicators
\* assigns them.
Battery ==
  << "SMA_20", "SMA_50", "EMA_20", "EMA_50", "RSI", "MACD", "MACD_Signal",
     "MACD_Histogram", "Volatility_20d", "Volatility_50d", "Current_Volatility",
     "ROC_20d", "Momentum_20d", "Mean_Price", "Std_Dev", "Coefficient_Variation",
     "Resistance_20d", "Support_20d", "Max_Drawdown", "Golden_Cross", "Death_Cross",
     "Price_vs_SMA20", "Price_vs_SMA50", "Stochastic_K_Current", "Stochastic_D",
     "Price_Change_20d", "ADX" >>

\* The computation of a key raises on these prices: prices.iloc[-20] on
\* fewer than 20 observations, the division of two Python floats by a
\* Mean_Price that rounded to 0.0 (a mean below half a cent), and on an
\* empty series every .iloc[-1] and what is derived from SMA_20.  The
\* statistics of the series and calculate_adx return nan or None instead.
raises(key, prices) ==
  \/ /\ key \in { "ROC_20d", "Momentum_20d", "Price_Change_20d" }
     /\ Len(prices) < ShortWindow
  \/ /\ key = "Coefficient_Variation"
     /\ prices # << >>
     /\ 2 * TailSum(prices, Len(prices)) < Len(prices) * Cent
  \/ /\ key \notin { "Mean_Price", "Std_Dev", "Coefficient_Variation", "Max_Drawdown", "ADX" }
     /\ prices = << >>

\* The keys of the bundle calculate_financial_indicators returns: one try
\* block holds the whole battery, so the first computation that raises ends
\* it and adds the key Error.
indicator_keys(prices) ==
  LET failing == { i \in 1..Len(Battery) : raises(Battery[i], prices) }
      first == IF failing = { } THEN Len(Battery) + 1
               ELSE CHOOSE i \in failing : \A j \in failing : i <= j
  IN { Battery[i] : i \in 1..(first - 1) }
       \cup (IF failing = { } THEN { } ELSE { "Error" })

\* What the provider answers to the fetches of a batch, one answer per fetch.
FetchOutcomes ==
  { [ kind |-> "raises", prices |-> << >> ], [ kind |-> "empty", prices |-> << >> ] }
    \cup { [ kind |-> "data", prices |-> Series(len, base, 1, len + 1) ] :
             len \in { ShortWindow - 1, ShortWindow }, base \in { 0, 1000 } }

Batches ==
  UNION { [ tickers : [ 1..n -> ValidSymbols ], fetch : [ 1..n -> FetchOutcomes ] ] :
            n \in 0..MaxList }

\* The index of the last fetch for a ticker: a later assignment to
\* result[ticker] replaces an earlier one.
LastFetch(tickers_, t) ==
  CHOOSE i \in 1..Len(tickers_) :
    tickers_[i] = t /\ \A j \in (i + 1)..Len(tickers_) : tickers_[j] # t

\* A variant without the try block: the first fetch that raises ends the loop.
get_stock_historical_data_unguarded(tickers_, fetch) ==
  LET upto == IF \E i \in 1..Len(fetch) : fetch[i].kind = "raises"
                THEN (CHOOSE i \in 1..Len(fetch) :
                        fetch[i].kind = "raises"
                          /\ \A j \in 1..(i - 1) : fetch[j].kind # "raises") - 1
                ELSE Len(fetch)
  IN [ t \in { tickers_[i] : i \in 1..upto } |->
         LET f == fetch[LastFetch(SubSeq(tickers_, 1, upto), t)]
         IN [ absent |-> f.kind # "data", prices |-> f.prices ] ]

\* get_stock_historical_data: result[ticker] is None for an empty frame or an
\* error of the fetch, else the list of closing prices.
get_stock_historical_data(tickers_, fetch) ==
  [ t \in Range(tickers_) |->
      LET f == fetch[LastFetch(tickers_, t)]
      IN [ absent |-> f.kind # "data", prices |-> f.prices ] ]

\* calculate_financial_metrics: one fetch per ticker; the bundle of the
\* indicators when closing_prices is a non-empty list, else the Error entry.
calculate_financial_metrics(tickers_, fetch) ==
  [ t \in Range(tickers_) |->
      LET i == LastFetch(tickers_, t)
          closing_prices == get_stock_historical_data(<< t >>, << fetch[i] >>)[t]
      IN IF ~closing_prices.absent /\ closing_prices.prices # << >>
           THEN [ entry |-> "indicators", keys |-> indicator_keys(closing_prices.prices) ]
           ELSE [ entry |-> "no_data", keys |-> { "Error" } ] ]

FinanceInit ==
  /\ GraphInit
  /\ mlog = << >>
  /\ tool_args \in Batches
  /\ tool_output = [ pending |-> TRUE ]

CallGetStockHistoricalData ==
  /\ tool_output = [ pending |-> TRUE ]
  /\ tool_output' = [ fn |-> "get_stock_historical_data",
                      result |-> get_stock_historical_data(tool_args.tickers, tool_args.fetch) ]
  /\ UNCHANGED << graphVars, mlog, tool_args >>

CallCalculateFinancialMetrics ==
  /\ tool_output = [ pending |-> TRUE ]
  /\ tool_output' = [ fn |-> "calculate_financial_metrics",
                      result |-> calculate_financial_metrics(tool_args.tickers, tool_args.fetch) ]
  /\ UNCHANGED << graphVars, mlog, tool_args >>

\* calculate_financial_indicators called on the prices of one of the answers.
CallIndicatorBattery ==
  /\ tool_output = [ pending |-> TRUE ]
  /\ \E i \in 1..Len(tool_args.fetch) :
       tool_output' = [ fn |-> "calculate_financial_indicators",
                        closing_prices |-> tool_args.fetch[i].prices,
                        result |-> indicator_keys(tool_args.fetch[i].prices) ]
  /\ UNCHANGED << graphVars, mlog, tool_args >>

FinanceNext ==
  \/ CallGetStockHistoricalData
  \/ CallCalculateFinancialMetrics
  \/ CallIndicatorBattery

SpecFinance == FinanceInit /\ [][FinanceNext]_vars

(***************************************************************************)
(* misc.extract_json.  A text is a sequence of tokens: the fence tagged    *)
(* json, a bare fence, the braces, a key with its colon, an empty array    *)
(* and a stretch of other text.                                            *)
(***************************************************************************)
Tokens == { "fence_json", "fence", "{", "}", "k:", "[]", "x" }

Texts == UNION { [ 1..n -> Tokens ] : n \in 0..MaxText }

\* Both fences begin with the three backquotes that close a block.
Fences == { "fence_json", "fence" }

\* The first index from i on whose token is one of toks, 0 if none.
RECURSIVE FindFrom(_, _, _)
FindFrom(text, i, toks) ==
  IF i > Len(text) THEN 0
  ELSE IF text[i] \in toks THEN i
  ELSE FindFrom(text, i + 1, toks)

NoMatch == [ found |-> FALSE, group |-> << >> ]

\* A variant whose group runs to the last fence of the text.
search_fenced_greedy(text) ==
  LET open == FindFrom(text, 1, { "fence_json" })
      closes == { j \in (open + 1)..Len(text) : text[j] \in Fences }
  IN IF open = 0 \/ closes = { } THEN NoMatch
     ELSE [ found |-> TRUE,
            group |-> SubSeq(text, open + 1,
                             (CHOOSE j \in closes : \A h \in closes : h <= j) - 1) ]

\* re.search for the fence tagged json, any text taken lazily, and a fence:
\* group 1 of the leftmost match, the shortest stretch up to the next fence.
search_fenced(text) ==
  LET open == FindFrom(text, 1, { "fence_json" })
      close == IF open = 0 THEN 0 ELSE FindFrom(text, open + 1, Fences)
  IN IF close = 0 THEN NoMatch
     ELSE [ found |-> TRUE, group |-> SubSeq(text, open + 1, close - 1) ]

\* re.search for an opening brace, any text taken lazily, and a closing
\* brace: from the first opening brace to the first closing brace after it.
search_braces(text) ==
  LET open == FindFrom(text, 1, { "{" })
      close == IF open = 0 THEN 0 ELSE FindFrom(text, open + 1, { "}" })
  IN IF close = 0 THEN NoMatch
     ELSE [ found |-> TRUE, group |-> SubSeq(text, open, close) ]

EmptyArray == [ array |-> << >> ]
EmptyMapping == [ object |-> << >> ]

\* The JSON value that starts at token i: where it ends and what it is;
\* next = 0 when no value starts there.
RECURSIVE ValueAt(_, _)
ValueAt(ts, i) ==
  IF i > Len(ts) THEN [ next |-> 0, value |-> EmptyMapping ]
  ELSE IF ts[i] = "[]" THEN [ next |-> i + 1, value |-> EmptyArray ]
  ELSE IF ts[i] = "{" /\ i + 1 <= Len(ts) /\ ts[i + 1] = "}"
    THEN [ next |-> i + 2, value |-> EmptyMapping ]
  ELSE IF ts[i] = "{" /\ i + 1 <= Len(ts) /\ ts[i + 1] = "k:"
    THEN LET inner == ValueAt(ts, i + 2)
         IN IF inner.next # 0 /\ inner.next <= Len(ts) /\ ts[inner.next] = "}"
              THEN [ next |-> inner.next + 1, value |-> [ object |-> << inner.value >> ] ]
              ELSE [ next |-> 0, value |-> EmptyMapping ]
  ELSE [ next |-> 0, value |-> EmptyMapping ]

\* json.loads: the value when the whole string is one JSON value, else it
\* raises.
json_loads(ts) ==
  IF ValueAt(ts, 1).next = Len(ts) + 1
    THEN [ raised |-> FALSE, value |-> ValueAt(ts, 1).value ]
    ELSE [ raised |-> TRUE, value |-> EmptyMapping ]

\* The body of the try block of extract_json.
extract_json_try(text) ==
  IF search_fenced(text).found THEN json_loads(search_fenced(text).group)
  ELSE IF search_braces(text).found THEN json_loads(search_braces(text).group)
  ELSE [ raised |-> FALSE, value |-> EmptyMapping ]

\* extract_json: except Exception: return {}.
extract_json(text) ==
  IF extract_json_try(text).raised
    THEN [ raised |-> FALSE, value |-> EmptyMapping ]
    ELSE extract_json_try(text)

JsonInit ==
  /\ GraphInit
  /\ mlog = << >>
  /\ tool_args \in Texts
  /\ tool_output = [ pending |-> TRUE ]

CallExtractJson ==
  /\ tool_output = [ pending |-> TRUE ]
  /\ tool_output' = extract_json(tool_args)
  /\ UNCHANGED << graphVars, mlog, tool_args >>

SpecJson == JsonInit /\ [][CallExtractJson]_vars

(***************************************************************************)
(* Properties.                                                             *)
(***************************************************************************)
TypeOK ==
  /\ status \in { "running", "suspended", "ended", "out_of_steps", "crashed" }
  /\ node \in Nodes \cup { END }
  /\ steps \in 0..RecursionLimit
  /\ Len(messages) \in 1..MaxMsgs

\* The step is a profile_builder turn whose response calls
\* extract_profile_data with all nine fields populated.
FullProfileExtraction ==
  /\ status = "running"
  /\ node = "profiler"
  /\ steps' = steps + 1
  /\ response'.stage = "profile_builder"
  /\ response'.tool_calls # << >>
  /\ response'.tool_calls[1].name = "extract_profile_data"
  /\ DOMAIN response'.tool_calls[1].args = ProfileFields
  /\ \A f \in ProfileFields : response'.tool_calls[1].args[f] # Default

\* C1: a profile_builder turn whose response calls extract_profile_data with
\* all nine fields populated leaves profile_complete true and the nine fields
\* equal to the arguments, is routed to the mandate stage, and leaves the
\* message log as it was.
C1_FullExtractionCompletesProfile ==
  [][ FullProfileExtraction =>
        /\ profile_complete'
        /\ \A f \in ProfileFields : profile'[f] = response'.tool_calls[1].args[f]
        /\ NodeAlias(routed') = "mandate_strategist"
        /\ messages' = messages ]_vars

\* C2: whenever the views stage is due, tickers holds at least two symbols.
C2_ViewsStageHasTwoTickers ==
  (status = "running" /\ node = "portfolio_analyst") => Len(tickers) >= 2

\* The step suspends a human-input node.
Suspends == node \in HumanNodes /\ status = "running" /\ status' = "suspended"

\* The step is a human-input node returning after its resumption.
HumanReturns ==
  node \in HumanNodes /\ status = "running" /\ resume_value # None /\ resume_value' = None

\* C3: the human-input node suspends with the content of the last message as
\* payload, and on resumption with reply R writes R to user_input and
\* nothing else of the conversation state.
C3_HumanInputContract ==
  [][ /\ Suspends => interrupt_payload' = Last(messages).content
      /\ HumanReturns =>
           /\ user_input' = resume_value
           /\ UNCHANGED << messages, next, profile, profile_complete, mandate,
                           mandate_complete, tickers, bl_views,
                           optimizer_raw_results, optimizer_outcome,
                           pdf_dashboard_url >> ]_vars

\* A resumed human-input node has returned the reply of a question that was
\* not the first message of the log.
C3_Witness ==
  /\ user_input \in Replies
  /\ resume_value = None
  /\ interrupt_payload = Last(messages).content
  /\ interrupt_payload # messages[1].content

OptimizerFailed ==
  \E i \in 1..Len(messages) : messages[i].content \in { OptimizationFailed, RequestFailed }

\* C5: after a failed optimizer stage the run goes no further: the reporter
\* is not executed.
C5_FailedOptimizerStopsRun ==
  OptimizerFailed => executed["reporter"] = 0

\* C6: after the apology of a last-step turn that still asked for a tool,
\* the router does not send control to the stage's tool-execution node.
C6_ApologyEndsToolLoop ==
  (Last(messages).content = Apology) => NodeAlias(routed) \notin ToolNodes

\* The position of a node's stage in the pipeline.
Rank(n) ==
  CASE n \in { "profiler", "profiler_human", "profiler_tools" } -> 1
    [] n \in { "mandate_strategist", "strategist_human", "strategist_tools" } -> 2
    [] n \in { "asset_researcher", "researcher_human", "researcher_tools" } -> 3
    [] n \in { "portfolio_analyst", "analyst_tools" } -> 4
    [] n = "portfolio_optimizer" -> 5
    [] n = "reporter" -> 6
    [] n = END -> 7

Populated(old, new) == \A f \in DOMAIN old : old[f] # Default => new[f] # Default

Ids(log) == [ i \in 1..Len(log) |-> log[i].id ]

\* C8: merging a turn whose id is new appends it at the end; merging a turn
\* whose id is in the log replaces that entry in place, the length and the
\* other entries unchanged; merging the same turn twice gives the log of
\* merging it once; no merge shortens the log.
C8_MergeIdempotentById ==
  \A m \in MergeTurns :
    LET once == add_messages(mlog, << m >>)
        i == IdIndex(mlog, m.id)
    IN /\ add_messages(once, << m >>) = once
       /\ add_messages(mlog, << m, m >>) = once
       /\ Len(once) >= Len(mlog)
       /\ i = 0 => once = Append(mlog, m)
       /\ i # 0 => /\ Len(once) = Len(mlog)
                   /\ once[i] = m
                   /\ \A j \in 1..Len(mlog) : j # i => once[j] = mlog[j]
                   /\ Ids(once) = Ids(mlog)

\* A full log whose ids are out of their numeric order and whose first
\* entry is a tool result: every further merge replaces an entry.
C8_Witness ==
  /\ Len(mlog) = MaxLog
  /\ mlog[1].id = MaxLog
  /\ mlog[1].type = "tool"
  /\ \A m \in MergeTurns : IdIndex(mlog, m.id) # 0

\* C10: profile_complete is true only with all nine profile fields
\* non-default, in the state and in the result of extract_profile_data,
\* whichever arguments the call omitted.
C10_CompleteProfileHasNoDefaults ==
  /\ profile_complete => \A f \in ProfileFields : profile[f] # Default
  /\ (tool_output.kind = "extract_profile_data" /\ tool_output.complete) =>
       \A f \in ProfileFields : tool_output.fields[f] # Default

\* The distinct trimmed, upper-cased string entries that pass the existence
\* check.
SurvivingTickers(ticker_list) ==
  { t \in { upper(strip(ticker_list[i].text)) :
              i \in { j \in 1..Len(ticker_list) : ticker_list[j].isstr } } :
      t # << >> /\ validate_ticker_text(t) }

\* C11: extract_tickers_data returns the surviving tickers, each once and
\* none in lower case, under the key tickers and nothing else when they are
\* two or more, and otherwise an error key and no tickers key.
C11_TickersDedupedUppercased ==
  "pending" \notin DOMAIN tool_output =>
    LET S == SurvivingTickers(tool_args)
    IN IF Cardinality(S) >= 2
         THEN /\ DOMAIN tool_output = { "tickers" }
              /\ Range(tool_output.tickers) = S
              /\ Len(tool_output.tickers) = Cardinality(S)
              /\ \A i \in 1..Len(tool_output.tickers) :
                   upper(tool_output.tickers[i]) = tool_output.tickers[i]
         ELSE DOMAIN tool_output = { "error" }

\* The list holds a lower-case, a padded and an upper-case variant of one
\* symbol and a second symbol, and the call returned two tickers.
C11_Witness ==
  /\ "tickers" \in DOMAIN tool_output
  /\ Len(tool_output.tickers) = 2
  /\ Len(tool_args) = 3
  /\ tool_args[1].text = << "a" >>
  /\ tool_args[2].text = << "A", " " >>
  /\ tool_args[3].text = << "b" >>

\* A view that breaks a rule of the validation: a relative view with one
\* ticker on both sides, an uncertainty outside [0.0001, 0.1], an expected
\* return outside [-1.0, 1.0], or a blank description.
Offending(view) ==
  \/ view.view_type = "relative" /\ view.long_ticker = view.short_ticker
  \/ view.uncertainty < MinUncertainty \/ view.uncertainty > MaxUncertainty
  \/ view.expected_return < -ReturnLimit \/ view.expected_return > ReturnLimit
  \/ strip(view.description) = << >>

C13_ViewMatrixShape ==
  "bl_views" \in DOMAIN tool_output =>
    LET b == tool_output.bl_views
        views == tool_args
        refs == UNION { ViewRefs(views[i]) : i \in 1..Len(views) }
    IN /\ Len(b.p_matrix) = Len(views)
       /\ Len(b.q_vector) = Len(views)
       /\ Len(b.sigma_vector) = Len(views)
       /\ Range(b.tickers) = refs
       /\ Len(b.tickers) = Cardinality(refs)
       /\ \A c \in 1..(Len(b.tickers) - 1) : Lex(b.tickers[c]) < Lex(b.tickers[c + 1])
       /\ \A i \in 1..Len(views) :
            /\ Len(b.p_matrix[i]) = Cardinality(refs)
            /\ b.q_vector[i] = views[i].expected_return
            /\ b.sigma_vector[i] = views[i].uncertainty
            /\ \A c \in 1..Len(b.tickers) :
                 b.p_matrix[i][c] =
                   IF views[i].view_type = "absolute"
                     THEN IF b.tickers[c] = views[i].ticker THEN 1 ELSE 0
                     ELSE IF b.tickers[c] = views[i].long_ticker THEN 1
                          ELSE IF b.tickers[c] = views[i].short_ticker THEN -1
                          ELSE 0

\* The accepted list is an absolute view on AAA and a relative view of AAA
\* against BBB: two rows, two columns, rows (1, 0) and (1, -1).
C13_Witness ==
  /\ "bl_views" \in DOMAIN tool_output
  /\ tool_output.bl_views.tickers = << "AAA", "BBB" >>
  /\ tool_output.bl_views.p_matrix = << << 1, 0 >>, << 1, -1 >> >>
  /\ tool_output.bl_views.q_vector = << 1000, 500 >>

\* The weights of a candidate are numbers that sum to 1, each in [0, 1].
ProperWeights(w) ==
  /\ ~w.nan
  /\ sum(w.num) = w.den
  /\ \A i \in DOMAIN w.num : 0 <= w.num[i] /\ w.num[i] <= w.den

\* C14: for every candidate within the search bounds the weights used for
\* simulation are the clipped candidate renormalised: they sum to 1 with
\* every coordinate in [0, 1], and a candidate and a positive rescaling of
\* it that stays within [0, 1] give the same weights.
C14_WeightsNormalised ==
  "pending" \notin DOMAIN tool_output =>
    /\ ProperWeights(tool_output)
    /\ \A y \in Candidates :
         (/\ \A i \in DOMAIN y : y[i] <= One /\ tool_args[i] <= One
          /\ \E k \in 2..One : \A i \in DOMAIN y : y[i] = k * tool_args[i]) =>
           \A i \in DOMAIN y :
             objective_weights(y).num[i] * tool_output.den =
               tool_output.num[i] * objective_weights(y).den

StrictlyIncreasing(prices) ==
  \A i \in 1..(Len(prices) - 1) : prices[i] < prices[i + 1]

\* C15: for a strictly increasing series of at least 50 observations the
\* bundle reports Golden_Cross true and Death_Cross false; and for every
\* series the two are never both true.
C15_GoldenCrossOnIncreasing ==
  "pending" \notin DOMAIN tool_output =>
    /\ ~(tool_output.Golden_Cross /\ tool_output.Death_Cross)
    /\ (StrictlyIncreasing(tool_args) /\ Len(tool_args) >= LongWindow) =>
         (tool_output.Golden_Cross /\ ~tool_output.Death_Cross)

\* The text between the first fence tagged json and the fence that follows
\* it, when there is such a pair.
HasFencedBlock(text) ==
  \E i, j \in 1..Len(text) : i < j /\ text[i] = "fence_json" /\ text[j] \in Fences

FirstFencedBlock(text) ==
  LET i == CHOOSE i \in 1..Len(text) :
             text[i] = "fence_json" /\ \A h \in 1..(i - 1) : text[h] # "fence_json"
      j == CHOOSE j \in (i + 1)..Len(text) :
             text[j] \in Fences /\ \A h \in (i + 1)..(j - 1) : text[h] \notin Fences
  IN SubSeq(text, i + 1, j - 1)

\* The stretch from the first opening brace to the first closing brace
\* after it, when there is such a pair.
HasBraces(text) ==
  \E i, j \in 1..Len(text) : i < j /\ text[i] = "{" /\ text[j] = "}"

FirstBraces(text) ==
  LET i == CHOOSE i \in 1..Len(text) : text[i] = "{" /\ \A h \in 1..(i - 1) : text[h] # "{"
      j == CHOOSE j \in (i + 1)..Len(text) :
             text[j] = "}" /\ \A h \in (i + 1)..(j - 1) : text[h] # "}"
  IN SubSeq(text, i, j)

WellFormed(ts) == ~json_loads(ts).raised

\* The payload of a stretch of text, the empty mapping when it is no JSON.
PayloadOrEmpty(ts) == IF WellFormed(ts) THEN json_loads(ts).value ELSE EmptyMapping

\* C16 as stated: the payload of the first fenced block when that block is
\* well-formed, otherwise the parse of the first brace-delimited object,
\* the empty mapping when neither exists or parsing fails; never a raise.
C16_FallsBackOnMalformedBlock ==
  "pending" \notin DOMAIN tool_output =>
    /\ ~tool_output.raised
    /\ tool_output.value =
         IF HasFencedBlock(tool_args) /\ WellFormed(FirstFencedBlock(tool_args))
           THEN json_loads(FirstFencedBlock(tool_args)).value
         ELSE IF HasBraces(tool_args) THEN PayloadOrEmpty(FirstBraces(tool_args))
         ELSE EmptyMapping

\* C16, amended: extract_json never raises; when the text has a fenced block
\* tagged json the result is that block's payload, or the empty mapping when
\* the block is no JSON; only when the text has no such block is the result
\* the payload of the first brace-delimited stretch, or the empty mapping
\* when that is no JSON or there is none.
C16_FallsBackOnlyWithoutBlock ==
  "pending" \notin DOMAIN tool_output =>
    /\ ~tool_output.raised
    /\ tool_output.value =
         IF HasFencedBlock(tool_args) THEN PayloadOrEmpty(FirstFencedBlock(tool_args))
         ELSE IF HasBraces(tool_args) THEN PayloadOrEmpty(FirstBraces(tool_args))
         ELSE EmptyMapping

\* A text with an object ahead of a fenced block that is empty, so no JSON,
\* gave the empty mapping.
C16_Witness ==
  /\ "pending" \notin DOMAIN tool_output
  /\ tool_args = << "{", "k:", "[]", "}", "fence_json", "fence" >>
  /\ tool_output.value = EmptyMapping

\* C17: the name a stage wrote into next and the value the router returned
\* are names of nodes registered in the graph (or its end).
C17_RoutingNamesRegistered ==
  /\ next # "" => next \in Nodes
  /\ routed \in Nodes \cup { END }

\* The step is a turn of the stage at node n.
StageTurn(n) == status = "running" /\ node = n /\ steps' = steps + 1

\* The step is a financial_advisor turn that returns no next: the last-step
\* turn whose response asks for a tool.
TurnWithoutNext ==
  /\ StageTurn("mandate_strategist")
  /\ is_last_step
  /\ response'.stage = "financial_advisor"
  /\ response'.tool_calls # << >>

\* C18: after a stage's turn its router returns the next that turn set; after
\* a turn that set none it returns the following stage if the stage's
\* completion flag holds and the stage's human-input node otherwise, never
\* the next of an earlier turn.
C18_RouterIgnoresStaleNext ==
  [][ /\ (StageTurn("profiler") /\ status' # "crashed") => routed' = next'
      /\ (StageTurn("asset_researcher") /\ status' # "crashed") => routed' = next'
      /\ (StageTurn("mandate_strategist") /\ ~TurnWithoutNext) => routed' = next'
      /\ TurnWithoutNext =>
           routed' = IF mandate_complete' THEN "asset_researcher" ELSE "strategist_human"
    ]_vars

\* The stage a tool-execution or human-input node belongs to.
Owner(n) ==
  CASE n \in { "profiler_tools", "profiler_human" } -> "profiler"
    [] n \in { "strategist_tools", "strategist_human" } -> "mandate_strategist"
    [] n \in { "researcher_tools", "researcher_human" } -> "asset_researcher"
    [] n = "analyst_tools" -> "portfolio_analyst"

\* C19: control leaves a tool-execution node or a human-input node only for
\* the stage the node belongs to, which is the stage it was entered from:
\* never for another stage, the optimizer or the end of the graph.
C19_HelperNodesReturnToOwner ==
  [][ /\ (node \in ToolNodes \cup HumanNodes /\ node' # node) =>
           (node' = Owner(node) /\ status' = "running")
      /\ (node' \in ToolNodes \cup HumanNodes /\ node' # node) => node = Owner(node')
    ]_vars

\* The views stage is due again right after its tool node ran.
C19_Witness ==
  /\ status = "running"
  /\ node = "portfolio_analyst"
  /\ routed = "portfolio_analyst"
  /\ Last(messages).type = "tool"
  /\ user_input \in Replies

\* C20: a views_analyst turn entered with the result of extract_bl_views as
\* the last message makes no model call, appends the fixed confirmation,
\* copies the result's bl_views payload into bl_views, and hands control to
\* the optimizer.
C20_ViewsResultShortCircuits ==
  [][ (Runs("portfolio_analyst") /\ IsViewsResult(Last(messages))) =>
        /\ response' = response
        /\ messages' = Append(messages, AIMessage(Len(messages) + 1, ViewsConfirmation, << >>))
        /\ bl_views' = Last(messages).content.ref
        /\ bl_views' # Default
        /\ node' = "portfolio_optimizer"
        /\ status' = "running"
    ]_vars

\* C21: whenever the optimizer is due, bl_views holds the payload of a
\* successful extract_bl_views call: the views stage does not hand over on a
\* response without a tool call, nor after the last-step apology.
C21_OptimizerEnteredWithViews ==
  (status = "running" /\ node = "portfolio_optimizer") =>
    /\ bl_views # Default
    /\ \E i \in 1..Len(messages) :
         /\ IsViewsResult(messages[i])
         /\ messages[i].content.kind = "bl_views"
         /\ messages[i].content.ref = bl_views
    /\ Last(messages).content # Apology

\* The step is a views_analyst turn entered with an error payload of
\* extract_bl_views as the last message.
ViewsErrorTurn ==
  /\ Runs("portfolio_analyst")
  /\ IsViewsResult(Last(messages))
  /\ Last(messages).content.kind = "error"

\* C22: on an error payload of extract_bl_views the views stage neither
\* routes to the optimizer nor aborts the run: the run goes on with the
\* model's next turn in the views stage, bl_views unwritten.
C22_ViewsErrorReturnsToModel ==
  [][ ViewsErrorTurn =>
        /\ status' = "running"
        /\ node' \in { "portfolio_analyst", "analyst_tools" }
        /\ bl_views' = bl_views ]_vars

\* The owning stage is due right after its human-input node returned the
\* user's reply: the last message is still the question.
BackFromHuman ==
  /\ status = "running"
  /\ node \in { EdgeTarget(n) : n \in HumanNodes }
  /\ routed = node
  /\ user_input \in Replies
  /\ Last(messages).type = "ai"

\* C23: the model call of the stage turn that follows a resumed human-input
\* node has the user's reply in its input.
C23_ReplyReachesModel ==
  [][ (BackFromHuman /\ StageTurn(node)) =>
        \E i \in 1..Len(ainvoke_messages) :
          /\ ainvoke_messages[i].type = "human"
          /\ ainvoke_messages[i].content.kind = "reply"
          /\ ainvoke_messages[i].content.ref = user_input ]_vars

\* The conversation is complete: end-of-graph after one run of the optimizer
\* and one of the reporter, the reporter's message last.
Completed ==
  /\ status = "ended"
  /\ executed["portfolio_optimizer"] = 1
  /\ executed["reporter"] = 1
  /\ Last(messages).content.kind = "report"

\* The exploration stops here: the step budget is used up, the caller's
\* resumptions are, or the message log is full.
Bounded ==
  \/ status = "out_of_steps"
  \/ status = "suspended" /\ resumes = MaxResumes
  \/ status = "running" /\ Len(messages) = MaxMsgs

\* C24: a run stops only at a human-input suspension, at end-of-graph or at
\* the step budget, the reporter runs only after the optimizer, and under
\* fairness every conversation is eventually complete.
C24_EveryConversationCompletes ==
  /\ [](status \in { "running", "suspended", "ended", "out_of_steps" })
  /\ [](executed["reporter"] > 0 => executed["portfolio_optimizer"] > 0)
  /\ <>(Completed \/ Bounded)

\* C25: an optimizer step on parameters that fail validation appends a
\* narrated failure, sends no request to the optimizer service and writes
\* neither optimizer_raw_results nor optimizer_outcome.
C25_InvalidParamsNotOptimized ==
  [][ (Runs("portfolio_optimizer")
         /\ ~validate_optimizer_params(parse_state_to_optimizer_params)) =>
        /\ Len(messages') = Len(messages) + 1
        /\ Last(messages').content = OptimizationFailed
        /\ UNCHANGED << optimizer_raw_results, optimizer_outcome >> ]_vars

\* C26: a reporter step does not abort, with or without raw results and with
\* or without a dashboard url in the state on entry: it makes its one
\* tool-free model call and appends exactly one message; when the dashboard
\* cannot be generated the url of the prompt is the placeholder.
C26_ReporterAlwaysCompletes ==
  [][ Runs("reporter") =>
        /\ status' = "ended"
        /\ Len(messages') = Len(messages) + 1
        /\ Last(messages').type = "ai"
        /\ Last(messages').tool_calls = << >>
        /\ response'.stage = "reporter"
        /\ (pdf_dashboard_url = "" /\ optimizer_raw_results = None) =>
             response'.url = InvalidUrl ]_vars

\* C27: for accepted views every ticker a view refers to is in the universe,
\* the columns of the view matrix are the tickers of the universe in the
\* universe's order, and the engine's dimension check passes.
C27_ViewColumnsMatchUniverse ==
  "bl_views" \in DOMAIN tool_output =>
    /\ \A i \in 1..Len(tool_args.views) : ViewRefs(tool_args.views[i]) \subseteq Range(tool_args.tickers)
    /\ tool_output.bl_views.tickers = tool_args.tickers
    /\ ~dimension_mismatch(tool_args.tickers, tool_output.bl_views.p_matrix)

\* C28: for a best vector within [0, upper_bound]^n the reported weights
\* are numbers that sum to 1, each at most the upper bound.
C28_WeightsWithinUpperBound ==
  ("pending" \notin DOMAIN tool_output
     /\ \A i \in DOMAIN tool_args : tool_args[i] <= UPPER_BOUNDS) =>
    /\ ~tool_output.nan
    /\ sum(tool_output.num) = tool_output.den
    /\ \A i \in DOMAIN tool_args :
         tool_output.num[i] * One <= UPPER_BOUNDS * tool_output.den

\* The call of the function named fn has returned.
Returned(fn) == "pending" \notin DOMAIN tool_output /\ tool_output.fn = fn

\* C29: the history of a batch has one key per requested ticker, absent for
\* a ticker whose fetch gave no data or raised and the fetched prices for
\* every other ticker; the metrics of a batch have one entry per requested
\* ticker, the Error entry for a ticker without history and a bundle of
\* indicators otherwise.
C29_BatchSurvivesFailedFetch ==
  /\ Returned("get_stock_historical_data") =>
       /\ DOMAIN tool_output.result = Range(tool_args.tickers)
       /\ \A t \in Range(tool_args.tickers) :
            LET f == tool_args.fetch[LastFetch(tool_args.tickers, t)]
            IN IF f.kind \in { "raises", "empty" }
                 THEN tool_output.result[t].absent
                 ELSE /\ ~tool_output.result[t].absent
                      /\ tool_output.result[t].prices = f.prices
  /\ Returned("calculate_financial_metrics") =>
       /\ DOMAIN tool_output.result = Range(tool_args.tickers)
       /\ \A t \in Range(tool_args.tickers) :
            LET f == tool_args.fetch[LastFetch(tool_args.tickers, t)]
            IN IF f.kind \in { "raises", "empty" }
                 THEN tool_output.result[t] = [ entry |-> "no_data", keys |-> { "Error" } ]
                 ELSE /\ tool_output.result[t].entry = "indicators"
                      /\ "SMA_20" \in tool_output.result[t].keys

\* A batch of two tickers whose first fetch raised: the first ticker is
\* absent and the second has its prices.
C29_Witness ==
  /\ Returned("get_stock_historical_data")
  /\ tool_args.tickers = << "AAA", "BBB" >>
  /\ tool_args.fetch[1].kind = "raises"
  /\ tool_args.fetch[2].kind = "data"
  /\ tool_output.result["AAA"].absent
  /\ tool_output.result["BBB"].prices = tool_args.fetch[2].prices

\* C30: when the computation of an indicator fails, every indicator after
\* it whose computation does not fail is in the bundle; the bundle is the
\* Error entry alone only when every computation fails.
C30_IndicatorsGuardedIndependently ==
  Returned("calculate_financial_indicators") =>
    /\ \A i \in 1..Len(Battery) :
         ~raises(Battery[i], tool_output.closing_prices) => Battery[i] \in tool_output.result
    /\ tool_output.result = { "Error" } =>
         \A i \in 1..Len(Battery) : raises(Battery[i], tool_output.closing_prices)

====
